---- MODULE Spec2Model ----
(***************************************************************************)
(* A model of the HTTP server of src/src/main.rs: the request parser, the  *)
(* response serializer, the route table, the five handlers, the per        *)
(* connection task and the accept loop, over a small file system.          *)
(*                                                                         *)
(* Text is modelled by TLA+ strings, read with Len, SubSeq and \o only.    *)
(* Two characters stand for what the ASCII alphabet cannot write:          *)
(*   InvalidByte  a byte that is not valid UTF-8 (0xFF);                   *)
(*   Replacement  U+FFFD, which from_utf8_lossy puts in its place and      *)
(*                whose UTF-8 encoding is three bytes long.                *)
(***************************************************************************)
EXTENDS Integers, Sequences, FiniteSets

VARIABLES
    fs,            \* the file system: location of a regular file -> its bytes
    dir,           \* main's `dir`, captured by the POST /files closure
    files,         \* main's `files`, captured by the GET /files closure
    root_handler,  \* Server.root_handler
    routes,        \* Server.routes, in registration order
    phase,         \* "setup" until Server::listen runs, then "listening"
    conns          \* the connections, by accept order: socket and task state

vars == <<fs, dir, files, root_handler, routes, phase, conns>>

(***************************************************************************)
(* Strings                                                                 *)
(***************************************************************************)
InvalidByte == "#"
Replacement == "@"
CRLF == "\r\n"

Min(a, b) == IF a <= b THEN a ELSE b

Char(s, i) == SubSeq(s, i, i)
Take(s, n) == SubSeq(s, 1, n)
Drop(s, n) == SubSeq(s, n + 1, Len(s))

\* Option<T>
None == [some |-> FALSE]
Some(v) == [some |-> TRUE, val |-> v]
UnwrapOr(o, d) == IF o.some THEN o.val ELSE d

\* Iterator::nth on a sequence (0-based)
Nth(seq, n) == IF n + 1 <= Len(seq) THEN Some(seq[n + 1]) ELSE None

\* str::starts_with
StartsWith(s, p) == Len(p) <= Len(s) /\ Take(s, Len(p)) = p

\* str::strip_prefix
StripPrefix(s, p) == IF StartsWith(s, p) THEN Some(Drop(s, Len(p))) ELSE None

\* the index of the first occurrence of pat in s at or after i, 0 when none
RECURSIVE FindFrom(_, _, _)
FindFrom(s, pat, i) ==
    IF i + Len(pat) - 1 > Len(s) THEN 0
    ELSE IF SubSeq(s, i, i + Len(pat) - 1) = pat THEN i
    ELSE FindFrom(s, pat, i + 1)

\* str::split(pat): the pieces between non-overlapping occurrences of pat
RECURSIVE Split(_, _)
Split(s, pat) ==
    LET i == FindFrom(s, pat, 1)
    IN  IF i = 0 THEN <<s>>
        ELSE <<Take(s, i - 1)>> \o Split(Drop(s, i + Len(pat) - 1), pat)

\* str::splitn(2, pat): at most two pieces, cut at the first occurrence
Splitn2(s, pat) ==
    LET i == FindFrom(s, pat, 1)
    IN  IF i = 0 THEN <<s>> ELSE <<Take(s, i - 1), Drop(s, i + Len(pat) - 1)>>

\* char::is_whitespace, on the characters of the model
IsWhitespace(c) == c \in {" ", "\t", "\n", "\r"}

\* the index of the first character at or after i that is (is not, for
\* ws = FALSE) whitespace; Len(s) + 1 when there is none
RECURSIVE Scan(_, _, _)
Scan(s, i, ws) ==
    IF i > Len(s) \/ IsWhitespace(Char(s, i)) = ws THEN i ELSE Scan(s, i + 1, ws)

\* str::split_whitespace: the non-empty runs of non-whitespace, from index i on
RECURSIVE TokensFrom(_, _)
TokensFrom(s, i) ==
    LET start == Scan(s, i, FALSE)
        end == Scan(s, start, TRUE)
    IN  IF start > Len(s) THEN <<>>
        ELSE <<SubSeq(s, start, end - 1)>> \o TokensFrom(s, end)

SplitWhitespace(s) == TokensFrom(s, 1)

StripCr(l) ==
    IF l # "" /\ Char(l, Len(l)) = "\r" THEN Take(l, Len(l) - 1) ELSE l

\* str::lines: cut at "\n", a "\r" before it dropped; no line after a final "\n"
RECURSIVE Lines(_)
Lines(s) ==
    IF s = "" THEN <<>>
    ELSE LET i == FindFrom(s, "\n", 1)
         IN  IF i = 0 THEN <<s>>
             ELSE <<StripCr(Take(s, i - 1))>> \o Lines(Drop(s, i))

UpperLetters == "ABCDEFGHIJKLMNOPQRSTUVWXYZ"
LowerLetters == "abcdefghijklmnopqrstuvwxyz"

UpperSet == {Char(UpperLetters, i) : i \in 1..Len(UpperLetters)}

LowerChar(c) ==
    IF c \in UpperSet THEN Char(LowerLetters, FindFrom(UpperLetters, c, 1)) ELSE c

\* a string character by character: Map(s, F, i, j) is F applied to each of
\* s[i..j], the results joined
RECURSIVE MapChars(_, _, _, _)
MapChars(s, F(_), i, j) ==
    IF i > j THEN ""
    ELSE IF i = j THEN F(Char(s, i))
    ELSE MapChars(s, F, i, (i + j) \div 2) \o MapChars(s, F, (i + j) \div 2 + 1, j)

\* str::to_lowercase
ToLowercase(s) == MapChars(s, LowerChar, 1, Len(s))

Digits == "0123456789"

\* ToString for usize and u32: the decimal digits
RECURSIVE IntToString(_)
IntToString(n) ==
    IF n < 10 THEN Char(Digits, n + 1)
    ELSE IntToString(n \div 10) \o Char(Digits, (n % 10) + 1)

\* str::len: the length in bytes of the UTF-8 encoding
RECURSIVE ByteLenFrom(_, _)
ByteLenFrom(s, i) ==
    IF i > Len(s) THEN 0
    ELSE (IF Char(s, i) = Replacement THEN 3 ELSE 1) + ByteLenFrom(s, i + 1)

ByteLen(s) == ByteLenFrom(s, 1)

LossyChar(c) == IF c = InvalidByte THEN Replacement ELSE c

\* String::from_utf8_lossy: every invalid byte becomes U+FFFD
FromUtf8Lossy(b) == MapChars(b, LossyChar, 1, Len(b))

\* String::from_utf8, as read_to_string uses it: fails on an invalid byte
IsUtf8(b) == FindFrom(b, InvalidByte, 1) = 0

(***************************************************************************)
(* Request                                                                 *)
(***************************************************************************)
Get == "Get"
Post == "Post"

\* lines 31-36: one (key, value) pair of a line after the first
HeaderOf(line) ==
    LET parts == Splitn2(line, ": ")
    IN  <<ToLowercase(UnwrapOr(Nth(parts, 0), "")), UnwrapOr(Nth(parts, 1), "")>>

\* lines 28-37
HeadersOf(request) ==
    LET ls == Lines(request)
    IN  [i \in 1..(IF Len(ls) = 0 THEN 0 ELSE Len(ls) - 1) |-> HeaderOf(ls[i + 1])]

\* the verb matched in any letter case
VerbOfAnyCase(tokens) ==
    IF ~Nth(tokens, 0).some THEN None
    ELSE IF ToLowercase(Nth(tokens, 0).val) = "get" THEN Some(Get)
    ELSE IF ToLowercase(Nth(tokens, 0).val) = "post" THEN Some(Post)
    ELSE None

\* lines 21-25: the verb, or None for the Err("Unknown verb")
VerbOf(tokens) ==
    IF Nth(tokens, 0) = Some("GET") THEN Some(Get)
    ELSE IF Nth(tokens, 0) = Some("POST") THEN Some(Post)
    ELSE None

\* Request::new: Some(Request) for Ok, None for Err
RequestNew(request) ==
    LET tokens == SplitWhitespace(request)
    IN  IF ~VerbOf(tokens).some THEN None
        ELSE Some([verb    |-> VerbOf(tokens).val,
                   path    |-> UnwrapOr(Nth(tokens, 1), "/"),
                   headers |-> HeadersOf(request),
                   body    |-> UnwrapOr(Nth(Split(request, CRLF \o CRLF), 1), "")])

\* Request::get_header: the value of the first pair whose key is key.to_lowercase()
GetHeader(req, key) ==
    LET hits == {i \in 1..Len(req.headers) : req.headers[i][1] = ToLowercase(key)}
    IN  IF hits = {} THEN None
        ELSE Some(req.headers[CHOOSE i \in hits : \A j \in hits : i <= j][2])

(***************************************************************************)
(* Response                                                                *)
(***************************************************************************)
ResponseNew == [status_code |-> 200, status_text |-> "", body |-> "", headers |-> <<>>]

SetBody(r, body) == [r EXCEPT !.body = body]
SetHeader(r, key, value) == [r EXCEPT !.headers = Append(@, <<key, value>>)]
SetStatusCode(r, code) == [r EXCEPT !.status_code = code]
SetStatusText(r, text) == [r EXCEPT !.status_text = text]

New404 == SetBody(SetStatusText(SetStatusCode(ResponseNew, 404), "Not Found"), "Not Found")

RECURSIVE HeaderLines(_)
HeaderLines(hs) ==
    IF hs = <<>> THEN ""
    ELSE hs[1][1] \o ": " \o hs[1][2] \o CRLF \o HeaderLines(Tail(hs))

\* a serializer that adds a Content-Length the handler did not set
DisplayWithLength(r) ==
    "HTTP/1.1 " \o IntToString(r.status_code) \o " " \o r.status_text \o CRLF
    \o HeaderLines(r.headers)
    \o (IF \E i \in 1..Len(r.headers) : r.headers[i][1] = "Content-Length" THEN ""
        ELSE "Content-Length: " \o IntToString(ByteLen(r.body)) \o CRLF)
    \o CRLF \o r.body

\* impl Display for Response
Display(r) ==
    "HTTP/1.1 " \o IntToString(r.status_code) \o " " \o r.status_text \o CRLF
    \o HeaderLines(r.headers) \o CRLF \o r.body

(***************************************************************************)
(* Paths and the file system                                               *)
(*                                                                         *)
(* A location is the absolute, normalised path of a file: "/d/f". The      *)
(* directories are fixed: the server makes and removes none.               *)
(***************************************************************************)
Dirs == {"/", "/d", "/w"}

IsComponent(p) == p # "" /\ p # "."

\* the components of a path: separators collapsed, "." dropped
Components(path) == SelectSeq(Split(path, "/"), IsComponent)

RECURSIVE JoinComponents(_)
JoinComponents(cs) ==
    IF cs = <<>> THEN "" ELSE "/" \o cs[1] \o JoinComponents(Tail(cs))

LocationOf(cs) == IF cs = <<>> THEN "/" ELSE JoinComponents(cs)

\* path resolution by the operating system, component by component from
\* `at`: Some(location), or None when a component is walked through
\* something that is no directory
RECURSIVE Walk(_, _)
Walk(cs, at) ==
    IF cs = <<>> THEN Some(LocationOf(at))
    ELSE IF LocationOf(at) \notin Dirs THEN None
    ELSE IF cs[1] = ".."
         THEN Walk(Tail(cs), IF at = <<>> THEN at ELSE SubSeq(at, 1, Len(at) - 1))
         ELSE Walk(Tail(cs), Append(at, cs[1]))

Resolve(path) == Walk(Components(path), <<>>)

\* Path::join: an absolute `p` replaces the base
Join(base, p) ==
    IF StartsWith(p, "/") THEN p
    ELSE IF base # "" /\ Char(base, Len(base)) = "/" THEN base \o p
    ELSE base \o "/" \o p

\* Path::file_name: the last component, unless it is ".."
FileName(path) ==
    LET cs == Components(path)
    IN  IF cs = <<>> \/ cs[Len(cs)] = ".." THEN None ELSE Some(cs[Len(cs)])

\* where File::create(path) makes or truncates a file: Some(location), or
\* None for the Err: a component walked through is no directory, or the
\* path names a directory
CreateTarget(path) ==
    LET r == Resolve(path)
    IN  IF ~r.some \/ path = "" THEN None
        ELSE IF r.val \in Dirs \/ Char(path, Len(path)) = "/" THEN None
        ELSE r

\* File::create: the file exists and is empty
Truncate(f, loc) == [l \in DOMAIN f \cup {loc} |-> IF l = loc THEN "" ELSE f[l]]

\* write_all from offset 0 of a fresh handle: the bytes replace the first
\* Len(bytes) bytes of the file and leave what lies after them
WriteAt0(f, loc, bytes) ==
    IF loc \in DOMAIN f THEN [f EXCEPT ![loc] = bytes \o Drop(@, Len(bytes))]
    ELSE f   \* the file was unlinked: the bytes go to no name

\* the file read lossily rather than as UTF-8 or nothing
ReadToStringLossy(f, path) ==
    LET r == Resolve(path)
    IN  IF r.some /\ r.val \in DOMAIN f THEN FromUtf8Lossy(f[r.val]) ELSE ""

\* std::fs::read_to_string(path).unwrap_or_default()
ReadToStringOrDefault(f, path) ==
    LET r == Resolve(path)
    IN  IF r.some /\ r.val \in DOMAIN f /\ IsUtf8(f[r.val]) THEN f[r.val] ELSE ""

\* the regular files that lie directly in directory d
DirEntries(f, d) ==
    {l \in DOMAIN f :
        LET cs == Components(l)
        IN  LocationOf(SubSeq(cs, 1, Len(cs) - 1)) = LocationOf(Components(d))}

\* main, lines 290-298: the paths of the files of the directory, each once,
\* in the order read_dir happens to give them
Listings(f, d) ==
    {fl \in [1..Cardinality(DirEntries(f, d)) -> DirEntries(f, d)] :
        \A e \in DirEntries(f, d) : \E i \in DOMAIN fl : fl[i] = e}

(***************************************************************************)
(* Routes and handlers                                                     *)
(***************************************************************************)
\* Route::new
RouteNew(path, verb) == [path |-> path, verb |-> verb]

\* Route::does_match with the verb forgotten
DoesMatchAnyVerb(route, req) == StartsWith(req.path, route.path)

\* Route::does_match
DoesMatch(route, req) == route.verb = req.verb /\ StartsWith(req.path, route.path)

\* the last route that matches, rather than the first
FindRouteLast(rs, req) ==
    LET hits == {i \in 1..Len(rs) : DoesMatch(rs[i].route, req)}
    IN  IF hits = {} THEN None ELSE Some(CHOOSE i \in hits : \A j \in hits : j <= i)

\* lines 210: routes.iter().find(..): the index of the first route that matches
FindRoute(rs, req) ==
    LET hits == {i \in 1..Len(rs) : DoesMatch(rs[i].route, req)}
    IN  IF hits = {} THEN None ELSE Some(CHOOSE i \in hits : \A j \in hits : i <= j)

\* the route table consulted before the root handler
SelectedRoutesFirst(root, rs, req) ==
    LET hits == {i \in 1..Len(rs) :
                    rs[i].route.verb = req.verb /\ StartsWith(req.path, rs[i].route.path)}
    IN  IF hits # {} THEN rs[CHOOSE i \in hits : \A j \in hits : i <= j].handler
        ELSE IF req.path = "/" THEN UnwrapOr(root, "new_404")
        ELSE "new_404"

\* handle_connection, lines 199-218: what answers the request
NotFound == "new_404"
Selected(root, rs, req) ==
    IF req.path = "/" THEN UnwrapOr(root, NotFound)
    ELSE IF FindRoute(rs, req).some THEN rs[FindRoute(rs, req).val].handler
    ELSE NotFound

\* handle_root
HandleRoot(req) == ResponseNew

\* handle_echo_request with Content-Length counted in characters
HandleEchoRequestChars(req) ==
    LET echo_string == UnwrapOr(StripPrefix(req.path, "/echo/"), "")
    IN  SetBody(SetHeader(SetHeader(ResponseNew,
                "Content-Type", "text/plain"),
                "Content-Length", IntToString(Len(echo_string))),
                echo_string)

\* handle_echo_request
HandleEchoRequest(req) ==
    LET echo_string == UnwrapOr(StripPrefix(req.path, "/echo/"), "")
    IN  SetBody(SetHeader(SetHeader(ResponseNew,
                "Content-Type", "text/plain"),
                "Content-Length", IntToString(ByteLen(echo_string))),
                echo_string)

\* handle_user_agent_request
HandleUserAgentRequest(req) ==
    LET user_agent == UnwrapOr(GetHeader(req, "User-Agent"), "Unknown")
    IN  SetBody(SetHeader(SetHeader(ResponseNew,
                "Content-Type", "text/plain"),
                "Content-Length", IntToString(ByteLen(user_agent))),
                user_agent)

\* lines 253-255: the first entry of the list whose base name is the given one
FindFile(fl, given_file_name) ==
    LET hits == {i \in 1..Len(fl) : UnwrapOr(FileName(fl[i]), "") = given_file_name}
    IN  IF hits = {} THEN None ELSE Some(fl[CHOOSE i \in hits : \A j \in hits : i <= j])

\* handle_files_request answering 404 for a listed file that is gone
HandleFilesRequestChecked(req, fl, f) ==
    LET given_file_name == UnwrapOr(StripPrefix(req.path, "/files/"), "")
        file == FindFile(fl, given_file_name)
        file_contents == ReadToStringOrDefault(f, file.val)
    IN  IF file.some /\ Resolve(file.val).some /\ Resolve(file.val).val \in DOMAIN f
        THEN SetBody(SetHeader(SetHeader(ResponseNew,
                "Content-Type", "application/octet-stream"),
                "Content-Length", IntToString(ByteLen(file_contents))),
                file_contents)
        ELSE New404

\* handle_files_request
HandleFilesRequest(req, fl, f) ==
    LET given_file_name == UnwrapOr(StripPrefix(req.path, "/files/"), "")
        file == FindFile(fl, given_file_name)
        file_contents == ReadToStringOrDefault(f, file.val)
    IN  IF file.some
        THEN SetBody(SetHeader(SetHeader(ResponseNew,
                "Content-Type", "application/octet-stream"),
                "Content-Length", IntToString(ByteLen(file_contents))),
                file_contents)
        ELSE New404

\* handle_post_file, line 271 and the argument of line 274
PostPath(req, directory) ==
    Join(directory, UnwrapOr(StripPrefix(req.path, "/files/"), ""))

\* handle_post_file, lines 278-280
PostResponse == SetStatusCode(ResponseNew, 201)

(***************************************************************************)
(* The program                                                             *)
(***************************************************************************)
MaxConns == 2     \* connections accepted in a run
MaxRoutes == 2    \* routes registered on a Server built route by route
BufSize == 4096   \* handle_connection's read buffer

ConnIds == 1..MaxConns

NoFs == [l \in {} |-> ""]

\* the file system before the server starts: no file; /d/f, readable or
\* not UTF-8; /d/f and /d/g
File(content) == [l \in {"/d/f"} |-> content]
TwoFiles == [l \in {"/d/f", "/d/g"} |-> IF l = "/d/f" THEN "old content" ELSE "a#b"]

\* main, lines 303-321
MainRoot == Some("handle_root")
MainRoutes ==
    <<[route |-> RouteNew("/echo", Get), handler |-> "handle_echo_request"],
      [route |-> RouteNew("/user-agent", Get), handler |-> "handle_user_agent_request"],
      [route |-> RouteNew("/files", Get), handler |-> "handle_files_request"],
      [route |-> RouteNew("/files", Post), handler |-> "handle_post_file"]>>

\* a connection nobody has made yet
Idle ==
    [pc      |-> "idle",   \* idle, read, parse, dispatch, write_file, send, closed
     buf     |-> "",       \* buf[0..bytes_read]
     req     |-> None,     \* the parsed Request
     handler |-> "",       \* what handle_connection chose to answer with
     file    |-> "",       \* handle_post_file's open file
     resp    |-> None,     \* the Response to send
     out     |-> "",       \* the bytes written to the socket
     log     |-> <<>>]     \* the steps taken on the connection, in order

\* main up to line 323, over one of the file systems `fss`: started with
\* `--directory /d` (lines 288-299), or with no argument in /w
Started(fss) ==
    /\ \/ fs \in fss /\ dir = "/d" /\ files \in Listings(fs, "/d")
       \/ fs = NoFs /\ dir = "/w" /\ files = <<>>
    /\ root_handler = MainRoot
    /\ routes = MainRoutes
    /\ phase = "listening"
    /\ conns = [c \in ConnIds |-> Idle]

Init == Started({NoFs, File("old content"), File("a#b")})

Step(c, rec) == conns' = [conns EXCEPT ![c] = rec]

\* a task that keeps its connection and reads again
EndTaskKeepAlive(conn, steps) == [conn EXCEPT !.pc = "read", !.log = @ \o steps]

\* how a task ends: its error or panic, and the stream dropped
EndTask(conn, steps) == [conn EXCEPT !.pc = "closed", !.log = @ \o steps \o <<"close">>]

\* Server::listen, lines 173-184: accept, and spawn the connection's task
Accept(c) ==
    /\ phase = "listening"
    /\ conns[c].pc = "idle"
    /\ IF c = 1 THEN TRUE ELSE conns[c - 1].pc # "idle"
    /\ Step(c, [conns[c] EXCEPT !.pc = "read", !.log = <<"accept">>])
    /\ UNCHANGED <<fs, dir, files, root_handler, routes, phase>>

\* lines 189-193: the one read, of what the client has sent, into buf
Read(c, sent) ==
    /\ conns[c].pc = "read"
    /\ Step(c, [conns[c] EXCEPT !.pc = "parse", !.buf = Take(sent, Min(Len(sent), BufSize)),
                                !.log = Append(@, "read")])
    /\ UNCHANGED <<fs, dir, files, root_handler, routes, phase>>

\* line 193: the read fails, and `?` returns the error
ReadFail(c) ==
    /\ conns[c].pc = "read"
    /\ Step(c, EndTask(conns[c], <<"read", "error">>))
    /\ UNCHANGED <<fs, dir, files, root_handler, routes, phase>>

\* lines 195-197: parse; on Err `?` returns it
Parse(c) ==
    LET req == RequestNew(FromUtf8Lossy(conns[c].buf))
    IN  /\ conns[c].pc = "parse"
        /\ IF req.some
           THEN Step(c, [conns[c] EXCEPT !.pc = "dispatch", !.req = req,
                                         !.log = Append(@, "parse")])
           ELSE Step(c, EndTask(conns[c], <<"parse", "error">>))
        /\ UNCHANGED <<fs, dir, files, root_handler, routes, phase>>

\* the call of the handler chosen, for the handlers that write no file
Invoke(handler, req, fl, f) ==
    CASE handler = "handle_root" -> HandleRoot(req)
      [] handler = "handle_echo_request" -> HandleEchoRequest(req)
      [] handler = "handle_user_agent_request" -> HandleUserAgentRequest(req)
      [] handler = "handle_files_request" -> HandleFilesRequest(req, fl, f)
      [] OTHER -> New404

\* lines 199-218: choose what answers the request and call it. The GET
\* /files closure (line 315) searches the list and reads the file. The POST
\* /files closure (line 320) runs up to File::create of line 274: the file
\* is made or truncated; on Err the unwrap panics and the task ends
Dispatch(c) ==
    LET req == conns[c].req.val
        handler == Selected(root_handler, routes, req)
        target == CreateTarget(PostPath(req, dir))
        chosen == [conns[c] EXCEPT !.handler = handler]
    IN  /\ conns[c].pc = "dispatch"
        /\ IF handler # "handle_post_file"
           THEN /\ fs' = fs
                /\ Step(c, [chosen EXCEPT !.pc = "send",
                                !.resp = Some(Invoke(handler, req, files, fs)),
                                !.log = Append(@, "dispatch")])
           ELSE IF target.some
           THEN /\ fs' = Truncate(fs, target.val)
                /\ Step(c, [chosen EXCEPT !.pc = "write_file", !.file = target.val,
                                !.log = Append(@, "dispatch")])
           ELSE /\ fs' = fs
                /\ Step(c, EndTask(chosen, <<"dispatch", "panic">>))
        /\ UNCHANGED <<dir, files, root_handler, routes, phase>>

\* a file-write handler that also enters the file into the file list
PostWriteListing(c) ==
    /\ conns[c].pc = "write_file"
    /\ fs' = WriteAt0(fs, conns[c].file, conns[c].req.val.body)
    /\ files' = IF \E i \in 1..Len(files) : files[i] = conns[c].file
                THEN files ELSE Append(files, conns[c].file)
    /\ Step(c, [conns[c] EXCEPT !.pc = "send", !.resp = Some(PostResponse)])
    /\ UNCHANGED <<dir, root_handler, routes, phase>>

\* handle_post_file, lines 275-280: write_all, then the 201
PostWrite(c) ==
    /\ conns[c].pc = "write_file"
    /\ fs' = WriteAt0(fs, conns[c].file, conns[c].req.val.body)
    /\ Step(c, [conns[c] EXCEPT !.pc = "send", !.resp = Some(PostResponse)])
    /\ UNCHANGED <<dir, files, root_handler, routes, phase>>

\* handle_post_file, line 275: write_all fails with only part of the body
\* written, and the unwrap panics
PostWriteFail(c) ==
    /\ conns[c].pc = "write_file"
    /\ \E written \in 0..(Len(conns[c].req.val.body) - 1) :
          fs' = WriteAt0(fs, conns[c].file, Take(conns[c].req.val.body, written))
    /\ Step(c, EndTask(conns[c], <<"write_file", "panic">>))
    /\ UNCHANGED <<dir, files, root_handler, routes, phase>>

\* Response::send, then the task returns Ok and the stream is dropped
Send(c) ==
    /\ conns[c].pc = "send"
    /\ Step(c, EndTask([conns[c] EXCEPT !.out = Display(conns[c].resp.val)], <<"write">>))
    /\ UNCHANGED <<fs, dir, files, root_handler, routes, phase>>

\* a panic that takes the whole process down: every connection is dropped
SendFailAborts(c) ==
    /\ conns[c].pc = "send"
    /\ conns' = [e \in ConnIds |->
                    IF e = c THEN EndTask(conns[c], <<"write", "panic">>)
                    ELSE [conns[e] EXCEPT !.pc = "closed"]]
    /\ UNCHANGED <<fs, dir, files, root_handler, routes, phase>>

\* Response::send, line 92: write_all fails and the unwrap panics
SendFail(c) ==
    /\ conns[c].pc = "send"
    /\ Step(c, EndTask(conns[c], <<"write", "panic">>))
    /\ UNCHANGED <<fs, dir, files, root_handler, routes, phase>>

(***************************************************************************)
(* What the clients send                                                   *)
(***************************************************************************)
Http == " HTTP/1.1"
End == CRLF \o CRLF

\* requests on one file, for connections that run side by side
FileRequests ==
    {"POST /files/f" \o Http \o End \o "hello",
     "POST /files/f" \o Http \o End \o "hi",
     "GET /files/f" \o Http \o End,
     "POST /files/" \o Http \o End \o "hi",
     "PUT /files/f" \o Http \o End \o "hi"}

\* requests of every kind, for one connection
AllRequests ==
    FileRequests \cup
    {"",
     "GET",
     "GET /" \o Http \o End,
     "POST /" \o Http \o End \o "x",
     "GET /echo/abc" \o Http \o CRLF \o "Host: h" \o End,
     "GET /echo/" \o Http \o End,
     "GET /echo/a#b" \o Http \o End,
     "GET /echo" \o Http \o End,
     "GET /echox/y" \o Http \o End,
     "POST /echo/abc" \o Http \o End,
     "GET /user-agent" \o Http \o CRLF \o "Host: h" \o CRLF \o "User-Agent: foo/1.0" \o End,
     "GET /user-agent" \o Http \o CRLF \o "user-agent: a" \o CRLF \o "USER-AGENT: b" \o End,
     "GET /user-agent" \o Http \o CRLF \o "Host: h" \o End,
     "GET /user-agent" \o Http \o CRLF \o "Host: h" \o End \o "User-Agent: inbody",
     "GET /user-agent" \o Http \o CRLF \o "User-Agent:nospace" \o End,
     "GET /user-agent" \o Http \o CRLF \o "User-Agent: a#" \o End,
     "GET /user-agent/x" \o Http \o CRLF \o "User-Agent: ua" \o End,
     "GET /files/g" \o Http \o End,
     "GET /files/h" \o Http \o End,
     "GET /files/" \o Http \o End,
     "GET /filesx" \o Http \o End,
     "GET /files/d/f" \o Http \o End,
     "POST /files/f" \o Http \o End \o "he" \o End \o "llo",
     "POST /files//x" \o Http \o End \o "hi",
     "POST /files/../x" \o Http \o End \o "hi",
     "POST /files/q/x" \o Http \o End \o "hi",
     "POST /filesx" \o Http \o End \o "hi",
     "POST /upload" \o Http \o End \o "hi",
     "GET /unknown/path" \o Http \o End,
     "get /" \o Http \o End,
     "GETX /" \o Http \o End,
     CRLF \o "GET /echo/abc" \o Http \o End,
     "GET" \o CRLF \o "Host: h" \o End,
     "GET echo/abc" \o Http \o End}

\* requests to a Server built route by route
ServerRequests ==
    {"GET /echo/abc" \o Http \o CRLF \o "User-Agent: ua" \o End,
     "POST /echo/abc" \o Http \o CRLF \o "User-Agent: ua" \o End,
     "GET /e" \o Http \o CRLF \o "User-Agent: ua" \o End,
     "GET /" \o Http \o End}

\* the routes registered on a Server built route by route
ServerRoutes ==
    {[route |-> RouteNew("/", Get), handler |-> "handle_user_agent_request"],
     [route |-> RouteNew("/echo", Get), handler |-> "handle_echo_request"],
     [route |-> RouteNew("/echo", Post), handler |-> "handle_user_agent_request"]}

(***************************************************************************)
(* Specifications                                                          *)
(***************************************************************************)
\* the task of connection c, whose client sends one of `requests`
Task(c, requests) ==
    \/ \E sent \in requests : Read(c, sent)
    \/ ReadFail(c)
    \/ Parse(c)
    \/ Dispatch(c)
    \/ PostWrite(c)
    \/ PostWriteFail(c)
    \/ Send(c)
    \/ SendFail(c)

\* the program of main, its connections running side by side
Next == \E c \in ConnIds : Accept(c) \/ Task(c, FileRequests)

Spec == Init /\ [][Next]_vars

\* the program of main, serving its first connection
NextOne == \E c \in {1} : Accept(c) \/ Task(c, AllRequests)

InitOne == Started({NoFs, TwoFiles})

SpecOne == InitOne /\ [][NextOne]_vars

\* somebody else removes a file once the server runs
Remove(loc) ==
    /\ phase = "listening"
    /\ loc \in DOMAIN fs
    /\ fs' = [l \in DOMAIN fs \ {loc} |-> fs[l]]
    /\ UNCHANGED <<dir, files, root_handler, routes, phase, conns>>

\* the program of main, serving its first connection, in a directory whose
\* files come and go
NextRemoval ==
    \/ \E c \in {1} : Accept(c) \/ Task(c, AllRequests)
    \/ \E loc \in {"/d/f", "/d/g"} : Remove(loc)

SpecRemoval == InitOne /\ [][NextRemoval]_vars

\* Server::new, line 301, with no file to serve
InitServer ==
    /\ fs = NoFs
    /\ dir = "/w"
    /\ files = <<>>
    /\ root_handler = None
    /\ routes = <<>>
    /\ phase = "setup"
    /\ conns = [c \in ConnIds |-> Idle]

\* Server::register_route
RegisterRoute(r) ==
    /\ phase = "setup"
    /\ Len(routes) < MaxRoutes
    /\ routes' = Append(routes, r)
    /\ UNCHANGED <<fs, dir, files, root_handler, phase, conns>>

\* Server::set_root_handler
SetRootHandler(handler) ==
    /\ phase = "setup"
    /\ root_handler' = Some(handler)
    /\ UNCHANGED <<fs, dir, files, routes, phase, conns>>

\* Server::listen is called: the Server is shared, and built no further
Listen ==
    /\ phase = "setup"
    /\ phase' = "listening"
    /\ UNCHANGED <<fs, dir, files, root_handler, routes, conns>>

\* a client that connects again once its connection is closed
AcceptInTurn(c) ==
    /\ IF c = 1 THEN TRUE ELSE conns[c - 1].pc = "closed"
    /\ Accept(c)

\* a Server built through its methods, then serving one client, whose
\* socket does not fail
NextServer ==
    \/ \E r \in ServerRoutes : RegisterRoute(r)
    \/ SetRootHandler("handle_root")
    \/ Listen
    \/ \E c \in ConnIds :
          \/ AcceptInTurn(c)
          \/ \E sent \in ServerRequests : Read(c, sent)
          \/ Parse(c)
          \/ Dispatch(c)
          \/ Send(c)

SpecServer == InitServer /\ [][NextServer]_vars

(***************************************************************************)
(* Properties                                                              *)
(***************************************************************************)
\* the connection's request has been parsed
Parsed(c) == conns[c].req.some

\* handle_connection has chosen what answers the connection's request
Dispatched(c) == conns[c].handler # ""

\* the connection has a Response to send, or has sent it
Responded(c) == conns[c].resp.some

\* the connection's response was written whole, and the connection closed
Answered(c) == conns[c].pc = "closed" /\ conns[c].out # ""

\* in this step, handle_connection dispatches the request of connection c
Dispatching(c) == conns[c].pc = "dispatch" /\ conns'[c].pc # "dispatch"

Plain(code, text, headers, body) ==
    [status_code |-> code, status_text |-> text, body |-> body, headers |-> headers]

Standard404 == Plain(404, "Not Found", <<>>, "Not Found")

\* the 200 that serves `content` as a file
FileOk(content) ==
    Plain(200, "",
          <<<<"Content-Type", "application/octet-stream">>,
            <<"Content-Length", IntToString(ByteLen(content))>>>>,
          content)

\* the 200 that serves `text` as plain text
TextOk(text) ==
    Plain(200, "",
          <<<<"Content-Type", "text/plain">>,
            <<"Content-Length", IntToString(ByteLen(text))>>>>,
          text)

IsFilesPath(path) == StartsWith(path, "/files/")
FilesName(path) == Drop(path, Len("/files/"))

\* C1 (as claimed): once a POST /files/n with body b has been answered 201
\* with an empty body, and no other connection has a POST to n, a GET
\* /files/n dispatched afterwards is answered 200 with body b, Content-Type
\* application/octet-stream and Content-Length the byte length of b.
C1_PostThenGet ==
    [][\A p, g \in ConnIds :
        ( /\ Answered(p)
          /\ conns[p].req.val.verb = Post
          /\ IsFilesPath(conns[p].req.val.path)
          /\ conns[p].resp.val = Plain(201, "", <<>>, "")
          /\ \A q \in ConnIds \ {p} :
                ~(Parsed(q) /\ conns[q].req.val.verb = Post
                            /\ conns[q].req.val.path = conns[p].req.val.path)
          /\ Dispatching(g)
          /\ conns[g].req.val.verb = Get
          /\ conns[g].req.val.path = conns[p].req.val.path )
        => conns'[g].resp = Some(FileOk(conns[p].req.val.body))]_vars

\* the five routes the interface lists
Recognized(req) ==
    \/ req.verb = Get /\ req.path = "/"
    \/ req.verb = Get /\ StartsWith(req.path, "/echo/")
    \/ req.verb = Get /\ req.path = "/user-agent"
    \/ req.verb = Get /\ IsFilesPath(req.path)
    \/ req.verb = Post /\ IsFilesPath(req.path)

\* C2 (as claimed): every parsed request that fits none of the five
\* recognized routes is answered with the standard 404.
C2_UnrecognizedIs404 ==
    \A c \in ConnIds :
        Dispatched(c) /\ ~Recognized(conns[c].req.val)
        => conns[c].resp = Some(Standard404)

\* the path begins, byte for byte, with the prefix of a route of main that
\* has the request's verb
BeginsLikeARoute(req) ==
    \/ req.verb = Get /\ StartsWith(req.path, "/echo")
    \/ req.verb = Get /\ StartsWith(req.path, "/user-agent")
    \/ req.verb = Get /\ StartsWith(req.path, "/files")
    \/ req.verb = Post /\ StartsWith(req.path, "/files")

\* C2 (amended): every parsed request whose path is not exactly "/" and
\* does not begin, byte for byte, with the prefix of a registered route of
\* its verb (GET: /echo, /user-agent, /files; POST: /files) is answered with
\* status 404, status text "Not Found", body "Not Found" and no headers.
C2_UnmatchedIs404 ==
    \A c \in ConnIds :
        Dispatched(c) /\ conns[c].req.val.path # "/" /\ ~BeginsLikeARoute(conns[c].req.val)
        => /\ conns[c].handler = NotFound
           /\ conns[c].resp = Some(Standard404)
           /\ conns[c].pc = "closed" /\ conns[c].out # ""
              => conns[c].out = "HTTP/1.1 404 Not Found\r\n\r\nNot Found"

\* C2 witness: a POST to a path under /echo has been answered with the 404
C2_Witness ==
    \E c \in ConnIds :
        /\ Answered(c)
        /\ conns[c].req.val.verb = Post
        /\ conns[c].req.val.path = "/echo/abc"
        /\ conns[c].out = "HTTP/1.1 404 Not Found\r\n\r\nNot Found"

\* C3: a request whose path is exactly "/" is answered by the root handler
\* (200, empty status text, empty body, no headers) whatever the routes
\* are, or by the standard 404 when no root handler is set; the root
\* handler answers no request whose path is anything else.
C3_RootOnlyForSlash ==
    \A c \in ConnIds :
        Dispatched(c)
        => /\ conns[c].req.val.path = "/" /\ root_handler.some
              => /\ conns[c].handler = "handle_root"
                 /\ conns[c].resp = Some(Plain(200, "", <<>>, ""))
           /\ conns[c].req.val.path = "/" /\ ~root_handler.some
              => /\ conns[c].handler = NotFound
                 /\ conns[c].resp = Some(Standard404)
           /\ conns[c].req.val.path # "/" => conns[c].handler # "handle_root"

\* C3 witness: with a route registered whose prefix is "/", a GET / has
\* been answered by the root handler
C3_Witness ==
    \E c \in ConnIds :
        /\ Answered(c)
        /\ conns[c].req.val.path = "/"
        /\ routes # <<>> /\ routes[1].route = RouteNew("/", conns[c].req.val.verb)
        /\ conns[c].handler = "handle_root"
        /\ conns[c].out = "HTTP/1.1 200 \r\n\r\n"

\* C4: every GET /echo/<text> is answered 200 with exactly the headers
\* Content-Type: text/plain and Content-Length: <byte length of text>, in
\* that order, and the body <text>.
C4_Echo ==
    \A c \in ConnIds :
        /\ Dispatched(c)
        /\ conns[c].req.val.verb = Get
        /\ StartsWith(conns[c].req.val.path, "/echo/")
        => conns[c].resp = Some(TextOk(Drop(conns[c].req.val.path, Len("/echo/"))))

\* C4 witness: GET /echo/abc has been answered with abc and Content-Length 3
C4_Witness ==
    \E c \in ConnIds :
        /\ conns[c].req.some /\ conns[c].req.val.path = "/echo/abc"
        /\ conns[c].out =
             "HTTP/1.1 200 \r\nContent-Type: text/plain\r\nContent-Length: 3\r\n\r\nabc"

\* the lines of `ls` up to the first empty one
RECURSIVE UntilEmpty(_)
UntilEmpty(ls) ==
    IF ls = <<>> \/ ls[1] = "" THEN <<>> ELSE <<ls[1]>> \o UntilEmpty(Tail(ls))

\* the header section of a request: the lines between the request line and
\* the first empty line
HeaderSection(request) ==
    LET ls == Lines(request)
    IN  IF ls = <<>> THEN <<>> ELSE UntilEmpty(Tail(ls))

\* the value of the first header of the section whose key is User-Agent in
\* any letter case, or "Unknown"
UserAgentOf(section) ==
    LET hits == {i \in 1..Len(section) : HeaderOf(section[i])[1] = "user-agent"}
    IN  IF hits = {} THEN "Unknown"
        ELSE HeaderOf(section[CHOOSE i \in hits : \A j \in hits : i <= j])[2]

\* C5 (as claimed): a GET /user-agent is answered 200 with the value of the
\* first User-Agent header of the header section as body, or "Unknown" when
\* the section has none, whatever the request body holds; Content-Length is
\* the byte length of the body.
C5_UserAgentFromHeaderSection ==
    \A c \in ConnIds :
        /\ Dispatched(c)
        /\ conns[c].req.val.verb = Get
        /\ conns[c].req.val.path = "/user-agent"
        => conns[c].resp =
             Some(TextOk(UserAgentOf(HeaderSection(FromUtf8Lossy(conns[c].buf)))))

\* C6 (as claimed): once a POST /files/<name> with body b is handled
\* without I/O failure, the file <directory>/<name> exists and holds
\* exactly b, and the response is 201 with an empty body and no headers.
C6_PostWritesInDirectory ==
    \A c \in ConnIds :
        /\ Responded(c)
        /\ conns[c].req.val.verb = Post
        /\ IsFilesPath(conns[c].req.val.path)
        => LET at == Resolve(dir \o "/" \o FilesName(conns[c].req.val.path))
           IN  /\ at.some
               /\ at.val \in DOMAIN fs
               /\ fs[at.val] = conns[c].req.val.body
               /\ conns[c].resp = Some(Plain(201, "", <<>>, ""))

\* the entries of the file list whose base name is `name`
EntriesNamed(name) == {i \in 1..Len(files) : FileName(files[i]) = Some(name)}

\* C7 (as claimed): a GET /files/<name> whose name is the base name of an
\* entry of the file list is answered 200 with Content-Type:
\* application/octet-stream, Content-Length the content length and the
\* file's content at request time as body; with no such entry, it is
\* answered with the standard 404.
C7_FilesGetServesContent ==
    [][\A c \in ConnIds :
        /\ Dispatching(c)
        /\ conns[c].req.val.verb = Get
        /\ IsFilesPath(conns[c].req.val.path)
        => LET hits == EntriesNamed(FilesName(conns[c].req.val.path))
           IN  IF hits = {} THEN conns'[c].resp = Some(Standard404)
               ELSE \E i \in hits : conns'[c].resp = Some(FileOk(fs[files[i]]))]_vars

\* C7 (amended): a GET /files/<name> whose name is the base name of an entry
\* of the file list is answered 200 with Content-Type:
\* application/octet-stream, Content-Length the byte length of the body, and
\* as body the file's content at request time when it can be read as UTF-8
\* text, the empty body when it cannot; with no such entry, it is answered
\* with the standard 404.
C7_FilesGetServesText ==
    [][\A c \in ConnIds :
        /\ Dispatching(c)
        /\ conns[c].req.val.verb = Get
        /\ IsFilesPath(conns[c].req.val.path)
        => LET hits == EntriesNamed(FilesName(conns[c].req.val.path))
           IN  IF hits = {} THEN conns'[c].resp = Some(Standard404)
               ELSE \E i \in hits :
                      conns'[c].resp =
                        Some(FileOk(IF files[i] \in DOMAIN fs /\ IsUtf8(fs[files[i]])
                                    THEN fs[files[i]] ELSE ""))]_vars

\* C7 witness: a file of the list, written since the server started, has
\* been served with its new content
C7_Witness ==
    \E c \in ConnIds :
        /\ conns[c].req.some /\ conns[c].req.val.path = "/files/f"
        /\ conns[c].out =
             "HTTP/1.1 200 \r\nContent-Type: application/octet-stream\r\n"
             \o "Content-Length: 5\r\n\r\nhello"

\* the routes with the request's verb whose prefix begins the request's path
Matching(req) ==
    {i \in 1..Len(routes) :
        /\ routes[i].route.verb = req.verb
        /\ Len(routes[i].route.path) <= Len(req.path)
        /\ SubSeq(req.path, 1, Len(routes[i].route.path)) = routes[i].route.path}

\* C8: a request whose path is not "/" is answered by the handler of the
\* first route, in registration order, whose verb is the request's and
\* whose prefix begins its path byte for byte, never by a later one, and by
\* the 404 when there is none; the same request gets the same handler every
\* time.
C8_FirstRegisteredWins ==
    /\ \A c \in ConnIds :
          Dispatched(c) /\ conns[c].req.val.path # "/"
          => LET hits == Matching(conns[c].req.val)
             IN  IF hits = {} THEN conns[c].handler = NotFound
                 ELSE \E i \in hits : /\ \A j \in hits : i <= j
                                      /\ conns[c].handler = routes[i].handler
    /\ \A c, e \in ConnIds :
          Dispatched(c) /\ Dispatched(e) /\ conns[c].buf = conns[e].buf
          => conns[c].handler = conns[e].handler

\* C8 witness: two routes with different handlers both match a request, sent
\* twice, and the first-registered answered it both times
C8_Witness ==
    /\ Len(routes) = 2
    /\ routes[1].handler # routes[2].handler
    /\ \A c \in ConnIds :
          /\ Answered(c)
          /\ Matching(conns[c].req.val) = {1, 2}
          /\ conns[c].handler = routes[1].handler
          /\ conns[c].buf = conns[1].buf

Lifecycle == <<"accept", "read", "parse", "dispatch", "write", "close">>

Count(log, step) == Cardinality({i \in 1..Len(log) : log[i] = step})

Failed(log) == \E i \in 1..Len(log) : log[i] \in {"error", "panic"}

\* C9: on a connection where nothing fails, the steps are read, parse,
\* dispatch, write, close in that order: one read, of at most 4096 bytes,
\* one response written, then the connection closed, with no second read
\* and no second response.
C9_OneRequestOneResponse ==
    \A c \in ConnIds :
        /\ Count(conns[c].log, "read") <= 1
        /\ Count(conns[c].log, "write") <= 1
        /\ Len(conns[c].buf) <= 4096
        /\ ~Failed(conns[c].log)
           => /\ Len(conns[c].log) <= Len(Lifecycle)
              /\ conns[c].log = SubSeq(Lifecycle, 1, Len(conns[c].log))
              /\ conns[c].pc = "closed" <=> conns[c].log = Lifecycle
              /\ conns[c].pc = "closed" => conns[c].out = Display(conns[c].resp.val)
              /\ conns[c].pc # "closed" => conns[c].out = ""

\* C9 witness: a connection has gone through all its steps and has its
\* response
C9_Witness ==
    \E c \in ConnIds :
        /\ conns[c].log = Lifecycle
        /\ conns[c].out = "HTTP/1.1 201 \r\n\r\n"

\* the first whitespace-separated token of the bytes is exactly GET or POST
HasVerb(buf) ==
    LET tokens == SplitWhitespace(FromUtf8Lossy(buf))
    IN  tokens # <<>> /\ tokens[1] \in {"GET", "POST"}

\* C10: when the bytes read do not parse (the first token is not exactly GET
\* or POST, an empty read included), the task's next step closes the
\* connection with no byte written, no handler chosen and the file system
\* as it was.
C10_ParseFailureIsSilent ==
    [][\A c \in ConnIds :
        conns[c].pc = "parse" /\ conns'[c] # conns[c] /\ ~HasVerb(conns[c].buf)
        => /\ conns'[c].pc = "closed"
           /\ conns'[c].out = ""
           /\ conns'[c].handler = "" /\ ~conns'[c].resp.some
           /\ fs' = fs]_vars

\* C10 witness: connections closed after a parse failure, one on an empty
\* read, with nothing written
C10_Witness ==
    \E c \in ConnIds :
        /\ conns[c].pc = "closed"
        /\ conns[c].buf = ""
        /\ conns[c].log = <<"accept", "read", "parse", "error", "close">>
        /\ conns[c].out = ""

\* the headers hs[i..] on the wire, one "<key>: <value>" line each
RECURSIVE Wire(_, _)
Wire(hs, i) ==
    IF i > Len(hs) THEN ""
    ELSE hs[i][1] \o ": " \o hs[i][2] \o "\r\n" \o Wire(hs, i + 1)

\* C11: the bytes written for a response are exactly "HTTP/1.1 <status_code>
\* <status_text>\r\n", one "<key>: <value>\r\n" per header in insertion
\* order, "\r\n", then the body unchanged, with no header the handler did
\* not set; the standard 404 is written as
\* "HTTP/1.1 404 Not Found\r\n\r\nNot Found".
C11_SerializedExactly ==
    \A c \in ConnIds :
        Answered(c)
        => LET r == conns[c].resp.val
           IN  /\ conns[c].out =
                    "HTTP/1.1 " \o IntToString(r.status_code) \o " " \o r.status_text
                    \o "\r\n" \o Wire(r.headers, 1) \o "\r\n" \o r.body
               /\ r = Standard404
                  => conns[c].out = "HTTP/1.1 404 Not Found\r\n\r\nNot Found"
               /\ r.headers = <<>>
                  => Split(conns[c].out, "\r\n\r\n")[1]
                       = "HTTP/1.1 " \o IntToString(r.status_code) \o " " \o r.status_text

\* C11 witness: a response with two headers and a body has been written,
\* the headers in the order the handler set them
C11_Witness ==
    \E c \in ConnIds :
        /\ conns[c].resp = Some(TextOk("foo/1.0"))
        /\ conns[c].out =
             "HTTP/1.1 200 \r\nContent-Type: text/plain\r\nContent-Length: 7\r\n\r\nfoo/1.0"

\* C12 (as claimed): the headers of a parsed request are exactly the lines
\* between the request line and the first empty line, in order, each split
\* at its first ": " with the key lower-cased; the empty separator line and
\* the lines of the body are no entries of the headers.
C12_HeadersAreTheHeaderSection ==
    \A c \in ConnIds :
        Parsed(c)
        => LET section == HeaderSection(FromUtf8Lossy(conns[c].buf))
           IN  conns[c].req.val.headers = [i \in 1..Len(section) |-> HeaderOf(section[i])]

\* what follows the first "\r\n\r\n" of `text`, to its end; "" when there
\* is none
AfterSeparator(text) ==
    LET i == FindFrom(text, "\r\n\r\n", 1)
    IN  IF i = 0 THEN "" ELSE SubSeq(text, i + 4, Len(text))

\* C13 (as claimed): the body of a parsed request is everything that
\* follows the first CRLF CRLF of the bytes read, up to their end, further
\* CRLF CRLF sequences included; it is empty when there is no CRLF CRLF.
C13_BodyIsAllAfterSeparator ==
    \A c \in ConnIds :
        Parsed(c) => conns[c].req.val.body = AfterSeparator(FromUtf8Lossy(conns[c].buf))

\* the connection's task has run its parse step
ParseDone(c) == \E i \in 1..Len(conns[c].log) : conns[c].log[i] = "parse"

\* the whitespace-separated tokens of the first line of `text`
FirstLineTokens(text) ==
    LET ls == Lines(text)
    IN  IF ls = <<>> THEN <<>> ELSE SplitWhitespace(ls[1])

\* C14 (as claimed): the verb and the path come from the first line only:
\* parsing succeeds exactly when the first token of the first line is GET
\* or POST, which is then the verb; the path is the second token of the
\* first line, and "/" when the first line has none, whatever the later
\* lines hold.
C14_VerbAndPathFromFirstLine ==
    \A c \in ConnIds :
        ParseDone(c)
        => LET tokens == FirstLineTokens(FromUtf8Lossy(conns[c].buf))
           IN  /\ Parsed(c) <=> (tokens # <<>> /\ tokens[1] \in {"GET", "POST"})
               /\ Parsed(c)
                  => /\ conns[c].req.val.verb = (IF tokens[1] = "GET" THEN Get ELSE Post)
                     /\ conns[c].req.val.path
                          = (IF Len(tokens) >= 2 THEN tokens[2] ELSE "/")

\* C15 (as claimed): every request the parser returns has a path that
\* starts with "/".
C15_PathStartsWithSlash ==
    \A c \in ConnIds :
        Parsed(c) => /\ conns[c].req.val.path # ""
                     /\ SubSeq(conns[c].req.val.path, 1, 1) = "/"

\* C16: once the accept loop has started, no step of any connection, the
\* file-write handler's included, changes the route list, the root handler,
\* the captured serving directory or the captured file list.
C16_SharedStateIsFrozen ==
    [][phase = "listening"
       => /\ phase' = "listening"
          /\ routes' = routes
          /\ root_handler' = root_handler
          /\ dir' = dir
          /\ files' = files]_vars

\* C16 witness: two connections have both written files of the serving
\* directory, one of them new, and the file list is still the empty list
\* captured at startup
C16_Witness ==
    /\ files = <<>> /\ dir = "/d" /\ routes = MainRoutes /\ root_handler = MainRoot
    /\ "/d/f" \in DOMAIN fs
    /\ \A c \in {1, 2} :
          /\ conns[c].pc = "closed"
          /\ conns[c].handler = "handle_post_file"
          /\ conns[c].out = "HTTP/1.1 201 \r\n\r\n"

\* the number of failures in a log
Failures(log) == Cardinality({i \in 1..Len(log) : log[i] \in {"error", "panic"}})

\* in this step, something fails on connection c
Failing(c) == Failures(conns'[c].log) > Failures(conns[c].log)

\* the connection the accept loop takes next
NextToAccept(c) ==
    conns[c].pc = "idle" /\ (IF c = 1 THEN TRUE ELSE conns[c - 1].pc # "idle")

\* C17: a failure on one connection (of its read, its parse, its file write
\* or its socket write) closes that connection and changes nothing else:
\* the accept loop goes on and can accept the next connection, and every
\* other connection, in progress or accepted later, stays where it was and
\* goes on through its own steps; a connection none of whose own steps
\* failed is closed only after read, parse, dispatch and write, with its
\* whole response written.
C17_FailureIsLocal ==
    /\ [][\A c \in ConnIds :
            Failing(c)
            => /\ conns'[c].pc = "closed"
               /\ phase' = "listening"
               /\ \A e \in ConnIds \ {c} : conns'[e] = conns[e]]_vars
    /\ [](\A c \in ConnIds :
            /\ NextToAccept(c) => ENABLED Accept(c)
            /\ conns[c].pc = "closed" /\ ~Failed(conns[c].log)
               => /\ conns[c].log = Lifecycle
                  /\ conns[c].out = Display(conns[c].resp.val))

\* C17 witness: the first connection's task panicked in its file write
\* while the second connection was in progress, and the second connection
\* has gone through all its steps and has its response
C17_Witness ==
    /\ conns[1].pc = "closed"
    /\ conns[1].log = <<"accept", "read", "parse", "dispatch", "panic", "close">>
    /\ conns[2].log = Lifecycle
    /\ conns[2].out # ""

\* the file of the list's entry i cannot be read as text: it is gone, or it
\* is not UTF-8
Unreadable(i) == files[i] \notin DOMAIN fs \/ ~IsUtf8(fs[files[i]])

\* C18: a GET /files/<name> whose name is that of an entry of the file list,
\* but whose file cannot be read when the request is handled (it was
\* removed since startup, or does not read as text), is answered 200 with
\* Content-Type: application/octet-stream, Content-Length: 0 and an empty
\* body: not with a 404, and the connection is not dropped without a
\* response.
C18_UnreadableFileIsEmpty200 ==
    [][\A c \in ConnIds :
        /\ Dispatching(c)
        /\ conns[c].req.val.verb = Get
        /\ IsFilesPath(conns[c].req.val.path)
        /\ EntriesNamed(FilesName(conns[c].req.val.path)) # {}
        /\ \A i \in EntriesNamed(FilesName(conns[c].req.val.path)) : Unreadable(i)
        => /\ conns'[c].pc = "send"
           /\ conns'[c].resp =
                Some(Plain(200, "",
                           <<<<"Content-Type", "application/octet-stream">>,
                             <<"Content-Length", "0">>>>,
                           ""))]_vars

\* C18 witness: /d/f, listed at startup and removed since, has been served
\* as an empty 200
C18_Witness ==
    \E c \in ConnIds :
        /\ \E i \in 1..Len(files) : files[i] = "/d/f"
        /\ "/d/f" \notin DOMAIN fs
        /\ conns[c].req.some /\ conns[c].req.val.path = "/files/f"
        /\ conns[c].out =
             "HTTP/1.1 200 \r\nContent-Type: application/octet-stream\r\n"
             \o "Content-Length: 0\r\n\r\n"

\* the connections whose file-write handler opened the file at `loc`
Writers(loc) == {c \in ConnIds : conns[c].file = loc}

\* the connection went through all its steps and has its response
Completed(c) == conns[c].pc = "closed" /\ conns[c].log = Lifecycle

\* C19 (as claimed): when the POSTs to one file name, handled side by side,
\* have all completed, the file holds the body of exactly one of them, never
\* a mixture of the bytes of two bodies.
C19_NoMixedContent ==
    \A loc \in DOMAIN fs :
        /\ Writers(loc) # {}
        /\ \A c \in Writers(loc) : Completed(c)
        => \E c \in Writers(loc) : fs[loc] = conns[c].req.val.body

\* the directory that holds the file at location `loc`
ParentOf(loc) ==
    LET cs == Components(loc)
    IN  LocationOf(SubSeq(cs, 1, Len(cs) - 1))

\* C20 (as claimed): every file the file-write handler creates or
\* overwrites lies directly inside the serving directory, whatever the
\* path of the POST, names with ".." segments or a further leading "/"
\* included.
C20_WritesStayInDirectory ==
    \A c \in ConnIds :
        conns[c].file # "" => ParentOf(conns[c].file) = LocationOf(Components(dir))

====
